---- MODULE Spec2Model ----
(***************************************************************************)
(* Tenant isolation of the onespirit backend: the context store            *)
(* (accounts/managers.py, clubs/models.py), the scoped managers, the       *)
(* tenant slug cache and the request middleware (accounts/middleware.py).  *)
(***************************************************************************)
EXTENDS Integers, Sequences, FiniteSets, TLC

\* ----------------------------------------------------------------- bounds
MaxTenants == 2      \* tenant accounts 1..MaxTenants
MaxOrgs == 1         \* organizations 1..MaxOrgs
MaxRecs == 2         \* rows per table, ids 1..MaxRecs
MaxThreads == 2      \* concurrently running units of execution
MaxQuota == 2        \* largest max_clubs of a tenant
MaxNames == 2        \* club names 1..MaxNames
MaxClubs == 2        \* clubs stored at most in a club scenario
MaxDays == 3         \* calendar days 1..MaxDays

\* Python's None: the default of every ContextVar, a cache miss, a null FK.
None == 0

Tenants == 1..MaxTenants
Orgs == 1..MaxOrgs
Recs == 1..MaxRecs
Threads == 1..MaxThreads

\* The thread a sequential scenario runs on.
Worker == CHOOSE t \in Threads : \A u \in Threads : t <= u

\* auth users: is_superuser, and the LoginUser row of the user (its contact id
\* and permissions_level) or None when the user has no LoginUser row.
UserTable ==
  << [is_superuser |-> TRUE,  login_contact |-> None, level |-> "member"],
     [is_superuser |-> FALSE, login_contact |-> 1,    level |-> "member"],
     [is_superuser |-> FALSE, login_contact |-> 2,    level |-> "admin"],
     [is_superuser |-> FALSE, login_contact |-> None, level |-> "member"] >>
Users == DOMAIN UserTable

\* tenant_slug of each tenant account (unique), and a slug no tenant ever had.
SlugNames == <<"acme", "dojo", "www", "kai">>
SlugOf(t) == SlugNames[t]
UnknownSlug == "ghost"
Slugs == {SlugOf(t) : t \in Tenants} \cup {UnknownSlug}

Kinds == {"MemberAccount", "Club", "Contact", "ClubStaff", "ClubMember", "ClubAffiliation"}

VARIABLES
  db,        \* the durable store: one field per table, each a function id -> row
  ctx,       \* ctx[c]: the three ContextVar slots of execution context c
  own,       \* own[thr][slot]: the value thread thr itself set last (None: never set)
  lastGet,   \* the last get_current_*: [thr, slot, val, own, foreign] (thr = None: none yet)
  switched,  \* the Worker has replaced one tenant in its context by another one
  ret,       \* the Worker's last call: [done |-> it was a query, rows, all |-> its querysets]
  cache,     \* the shared cache: cache[slug] = [present, value] of key tenant_slug_{slug}
  mark,      \* mark[slug]: "fresh" since a lookup of slug, "invalidated" since an invalidation, else "none"
  lastLookup, \* the last finished get_tenant_by_slug: its slug, result, whether it queried the store
  lk,        \* lk[thr]: where thread thr is inside get_tenant_by_slug, with its locals
  retired,   \* tenants deactivated whose slug was invalidated after the deactivation
  session,   \* the client's session: the tenant id under selected_tenant_id (None: no key)
  req,       \* the request the Worker is handling: its position in the chain and its data
  saved,     \* the last Model.save(): the instance, the outcome, and what was stored before
  tx         \* tx[thr]: where thread thr is inside a Model.save(), with the instance it saves

dbVars == <<db>>
ctxVars == <<ctx, own, lastGet, switched>>
cacheVars == <<cache, mark, lastLookup, lk, retired>>
mwVars == <<session, req>>
vars == <<db, ctx, own, lastGet, switched, ret, cache, mark, lastLookup, lk, retired, session, req,
         saved, tx>>

EmptyCtx == [tenant |-> None, organization |-> None, user |-> None]
NoReq == [pc |-> "idle", user |-> None, admin |-> FALSE, sel |-> FALSE, selId |-> None,
          tenant |-> None, resolved |-> None, sub |-> None, path |-> None, sess |-> None,
          had |-> None, lookup |-> "", skipped |-> FALSE, named |-> None,
          stale |-> None, outcome |-> "none", entitled |-> FALSE, touched |-> FALSE]
NoSave == [kind |-> "none"]
NoTx == [pc |-> "idle", tenant |-> None, name |-> None]
NoRows == [done |-> FALSE, rows |-> [k \in Kinds |-> {}], all |-> [k \in Kinds |-> {}]]
NoGet == [thr |-> None, slot |-> "tenant", val |-> None, own |-> None, foreign |-> FALSE]

\* ------------------------------------------------------------ durable store
\* TenantAccount.max_clubs, default=5.
DefaultMaxClubs == 5

\* Row i of every tenant-owned table belongs to tenant shape[i][1]; contact i is a
\* direct member of organization shape[i][2] (None: no organization). Club i is
\* named i.
Database(shape) ==
  [ TenantAccount   |-> [t \in Tenants |-> [tenant_slug |-> SlugOf(t), is_active |-> TRUE,
                                               max_clubs |-> DefaultMaxClubs]],
    MemberAccount   |-> [i \in Recs |-> [tenant |-> shape[i][1]]],
    Club            |-> [i \in Recs |-> [tenant |-> shape[i][1], name |-> i]],
    Contact         |-> [i \in Recs |-> [tenant |-> shape[i][1], organization |-> shape[i][2]]],
    ClubStaff       |-> [i \in Recs |-> [club |-> i, contact |-> i, is_active |-> TRUE]],
    ClubMember      |-> [i \in Recs |-> [club |-> i, member_account |-> i]],
    ClubAffiliation |-> [i \in Recs |-> [club_primary |-> i, club_secondary |-> (i % MaxRecs) + 1]] ]

Shapes == [Recs -> Tenants \X (Orgs \cup {None})]

\* models.Manager.get_queryset: every row of the table (the all_objects accessor).
all_objects(kind) == DOMAIN db[kind]

\* ------------------------------------------------------------ context store
\* The contextvars.Context a thread runs in: its own.
SharedContext(thr) == Worker
ContextOf(thr) == thr

get_current_tenant(thr) == ctx[ContextOf(thr)].tenant
get_current_organization(thr) == ctx[ContextOf(thr)].organization
get_current_user(thr) == ctx[ContextOf(thr)].user

\* ContextVar.set on slot `slot` by thread thr.
SetSlot(thr, slot, v) ==
  /\ ctx' = [ctx EXCEPT ![ContextOf(thr)][slot] = v]
  /\ own' = [own EXCEPT ![thr][slot] = v]

\* ContextVar.get on slot `slot` by thread thr.
GetSlot(thr, slot) == ctx[ContextOf(thr)][slot]

\* ------------------------------------------------------------ scoped managers
\* TenantAwareManager.get_queryset; every model it serves has a tenant field.
TenantAwareUnfiltered(thr, kind) == all_objects(kind)
TenantAwareManager_get_queryset(thr, kind) ==
  LET tenant == get_current_tenant(thr) IN
  IF tenant # None
    THEN {i \in all_objects(kind) : db[kind][i].tenant = tenant}
    ELSE all_objects(kind)

\* OrganizationAwareManager.get_queryset with the organization filter replacing
\* the tenant filter instead of narrowing it.
OrganizationInsteadOfTenant(thr, kind) ==
  LET organization == get_current_organization(thr) IN
  IF organization # None
    THEN {i \in all_objects(kind) : db[kind][i].organization = organization}
    ELSE TenantAwareManager_get_queryset(thr, kind)

\* OrganizationAwareManager.get_queryset (Contact): the parent's queryset,
\* narrowed to the context organization when one is set.
OrganizationAwareManager_get_queryset(thr, kind) ==
  LET queryset == TenantAwareManager_get_queryset(thr, kind)
      organization == get_current_organization(thr) IN
  IF organization # None
    THEN {i \in queryset : db[kind][i].organization = organization}
    ELSE queryset

\* ClubStaff.all_objects.filter(contact__login_user=login_user, is_active=True)
\*   .values_list("club_id")
user_club_ids(user) ==
  {db.ClubStaff[s].club : s \in {x \in all_objects("ClubStaff") :
      /\ db.ClubStaff[x].contact = UserTable[user].login_contact
      /\ db.ClubStaff[x].is_active}}

\* ClubRelatedManager.get_queryset with the user filter applied whether or not a
\* tenant is in the context.
ClubRelatedUserFilterAlways(thr, kind) ==
  LET user == get_current_user(thr) IN
  IF user # None
    THEN IF UserTable[user].login_contact = None
           THEN {}
           ELSE IF UserTable[user].is_superuser \/ UserTable[user].level = "admin"
                  THEN all_objects(kind)
                  ELSE {i \in all_objects(kind) : db[kind][i].club \in user_club_ids(user)}
    ELSE all_objects(kind)

\* ClubRelatedManager.get_queryset with the user filter applied only while no
\* tenant is in the context.
ClubRelatedUserFilterWithoutTenant(thr, kind) ==
  LET tenant == get_current_tenant(thr)
      user == get_current_user(thr) IN
  IF tenant # None
    THEN {i \in all_objects(kind) : db.Club[db[kind][i].club].tenant = tenant}
    ELSE IF user # None
           THEN IF UserTable[user].login_contact = None
                  THEN {}
                  ELSE IF UserTable[user].is_superuser \/ UserTable[user].level = "admin"
                         THEN all_objects(kind)
                         ELSE {i \in all_objects(kind) : db[kind][i].club \in user_club_ids(user)}
           ELSE all_objects(kind)

\* ClubRelatedManager.get_queryset (ClubStaff, ClubMember).
ClubRelatedManager_get_queryset(thr, kind) ==
  LET tenant == get_current_tenant(thr)
      user == get_current_user(thr)
      byTenant == IF tenant # None
                    THEN {i \in all_objects(kind) : db.Club[db[kind][i].club].tenant = tenant}
                    ELSE all_objects(kind) IN
  IF user # None /\ tenant # None
    THEN IF UserTable[user].login_contact = None
           THEN {}                                   \* LoginUser.DoesNotExist
           ELSE IF UserTable[user].is_superuser \/ UserTable[user].level = "admin"
                  THEN byTenant
                  ELSE {i \in byTenant : db[kind][i].club \in user_club_ids(user)}
    ELSE byTenant

\* ClubAffiliationManager.get_queryset filtering on the secondary club.
ClubAffiliationBySecondary(thr, kind) ==
  LET tenant == get_current_tenant(thr) IN
  IF tenant # None
    THEN {i \in all_objects(kind) : db.Club[db[kind][i].club_secondary].tenant = tenant}
    ELSE all_objects(kind)

\* ClubAffiliationManager.get_queryset.
ClubAffiliationManager_get_queryset(thr, kind) ==
  LET tenant == get_current_tenant(thr) IN
  IF tenant # None
    THEN {i \in all_objects(kind) : db.Club[db[kind][i].club_primary].tenant = tenant}
    ELSE all_objects(kind)

\* Model.objects of each entity kind.
objects(thr, kind) ==
  CASE kind \in {"MemberAccount", "Club"} -> TenantAwareManager_get_queryset(thr, kind)
    [] kind = "Contact" -> OrganizationAwareManager_get_queryset(thr, kind)
    [] kind \in {"ClubStaff", "ClubMember"} -> ClubRelatedManager_get_queryset(thr, kind)
    [] kind = "ClubAffiliation" -> ClubAffiliationManager_get_queryset(thr, kind)

\* ------------------------------------------------------------- tenant cache
NoEntry == [present |-> FALSE, value |-> None]
NoLookup == [slug |-> UnknownSlug, done |-> FALSE, tenant |-> None, queried |-> FALSE,
             was |-> "none", stored |-> None]

Idle == [pc |-> "idle", slug |-> UnknownSlug, tenant |-> None]

\* django cache.get(key): the stored value, None when the key is absent.
cache_get(slug) == IF cache[slug].present THEN cache[slug].value ELSE None

\* cache.set(key, value, CACHE_TIMEOUT) / cache.delete(key), as the new cache.
cache_set(c, slug, value) == [c EXCEPT ![slug] = [present |-> TRUE, value |-> value]]
cache_delete(c, slug) == [c EXCEPT ![slug] = NoEntry]

\* TenantAccount.objects.get(tenant_slug=slug, is_active=True); None stands for
\* TenantAccount.DoesNotExist.
TenantBySlug(slug) ==
  LET m == {t \in DOMAIN db.TenantAccount :
              db.TenantAccount[t].tenant_slug = slug /\ db.TenantAccount[t].is_active} IN
  IF m = {} THEN None ELSE CHOOSE t \in m : TRUE

\* TenantCacheManager.get_tenant_by_slug over cache c: the tenant returned, the
\* cache it leaves, and whether it queried the durable store.
get_tenant_by_slug(c, slug) ==
  LET hit == IF c[slug].present THEN c[slug].value ELSE None IN
  IF hit = None        \* `if not tenant`: a miss and a cached None look alike
    THEN LET found == TenantBySlug(slug) IN
         [tenant |-> found, cache |-> cache_set(c, slug, found), queried |-> TRUE]
    ELSE [tenant |-> hit, cache |-> c, queried |-> FALSE]

\* TenantCacheManager.invalidate_tenant_cache
InvalidateNothing(c, slug) == c
invalidate_tenant_cache(c, slug) == cache_delete(c, slug)

\* Restriction of table f to the ids in S.
Restrict(f, S) == [i \in S |-> f[i]]

\* TenantAccount.delete(): the row and, by on_delete=CASCADE, the tenant's clubs,
\* member accounts and contacts and the rows that reference those.
DeleteCascade(d, t) ==
  LET clubs == {i \in DOMAIN d.Club : d.Club[i].tenant # t}
      members == {i \in DOMAIN d.MemberAccount : d.MemberAccount[i].tenant # t}
      contacts == {i \in DOMAIN d.Contact : d.Contact[i].tenant # t} IN
  [ TenantAccount   |-> Restrict(d.TenantAccount, DOMAIN d.TenantAccount \ {t}),
    MemberAccount   |-> Restrict(d.MemberAccount, members),
    Club            |-> Restrict(d.Club, clubs),
    Contact         |-> Restrict(d.Contact, contacts),
    ClubStaff       |-> Restrict(d.ClubStaff, {i \in DOMAIN d.ClubStaff :
                          d.ClubStaff[i].club \in clubs /\ d.ClubStaff[i].contact \in contacts}),
    ClubMember      |-> Restrict(d.ClubMember, {i \in DOMAIN d.ClubMember :
                          d.ClubMember[i].club \in clubs /\ d.ClubMember[i].member_account \in members}),
    ClubAffiliation |-> Restrict(d.ClubAffiliation, {i \in DOMAIN d.ClubAffiliation :
                          d.ClubAffiliation[i].club_primary \in clubs
                          /\ d.ClubAffiliation[i].club_secondary \in clubs}) ]

\* ---------------------------------------------------------------- SpecQuery
\* One thread sets the context slots and evaluates the default accessors.
InitCtx ==
  /\ ctx = [c \in Threads |-> EmptyCtx]
  /\ own = [c \in Threads |-> EmptyCtx]
  /\ lastGet = NoGet
  /\ switched = FALSE

InitCache ==
  /\ cache = [s \in Slugs |-> NoEntry]
  /\ mark = [s \in Slugs |-> "none"]
  /\ lastLookup = NoLookup
  /\ lk = [thr \in Threads |-> Idle]
  /\ retired = {}

InitMw ==
  /\ session = None
  /\ req = NoReq
  /\ saved = NoSave
  /\ tx = [thr \in Threads |-> NoTx]

InitQuery ==
  /\ \E shape \in Shapes : db = Database(shape)
  /\ InitCtx
  /\ InitCache
  /\ InitMw
  /\ ret = NoRows

SetTenant ==
  \E v \in Tenants \cup {None} :
    /\ SetSlot(Worker, "tenant", v)
    /\ switched' = (switched \/ (get_current_tenant(Worker) # None /\ v # None
                                   /\ v # get_current_tenant(Worker)))
    /\ ret' = NoRows
    /\ UNCHANGED <<db, lastGet, cacheVars, mwVars, saved, tx>>

SetOrganization ==
  \E v \in Orgs \cup {None} :
    /\ SetSlot(Worker, "organization", v)
    /\ ret' = NoRows
    /\ UNCHANGED <<db, lastGet, switched, cacheVars, mwVars, saved, tx>>

SetUser ==
  \E v \in Users \cup {None} :
    /\ SetSlot(Worker, "user", v)
    /\ ret' = NoRows
    /\ UNCHANGED <<db, lastGet, switched, cacheVars, mwVars, saved, tx>>

\* Model.objects.all() and Model.all_objects.all() on every entity kind.
Query ==
  /\ ret' = [done |-> TRUE, rows |-> [k \in Kinds |-> objects(Worker, k)],
             all |-> [k \in Kinds |-> all_objects(k)]]
  /\ UNCHANGED <<db, ctx, own, lastGet, switched, cacheVars, mwVars, saved, tx>>

NextQuery == SetTenant \/ SetOrganization \/ SetUser \/ Query

SpecQuery == InitQuery /\ [][NextQuery]_vars

\* ------------------------------------------------------------------ SpecCtx
\* Concurrently handled requests, one per thread, set and get the three slots in
\* any interleaving.
DefaultShape == [i \in Recs |-> <<((i - 1) % MaxTenants) + 1, None>>]
SomeOrg == CHOOSE o \in Orgs : TRUE
SomeUser == CHOOSE u \in Users : TRUE
SlotValues(slot) ==
  CASE slot = "tenant" -> Tenants \cup {None}
    [] slot = "organization" -> {SomeOrg, None}
    [] slot = "user" -> {SomeUser, None}
Slots == {"tenant", "organization", "user"}

InitCtxStore ==
  /\ db = Database(DefaultShape)
  /\ InitCtx
  /\ InitCache
  /\ InitMw
  /\ ret = NoRows

ThreadSet ==
  \E thr \in Threads, slot \in Slots :
    \E v \in SlotValues(slot) :
      /\ SetSlot(thr, slot, v)
      /\ UNCHANGED <<db, lastGet, switched, ret, cacheVars, mwVars, saved, tx>>

ThreadGet ==
  \E thr \in Threads, slot \in Slots :
    /\ lastGet' = [thr |-> thr, slot |-> slot, val |-> GetSlot(thr, slot),
                   own |-> own[thr][slot],
                   foreign |-> \E u \in Threads \ {thr} :
                                 own[u][slot] # None /\ own[u][slot] # own[thr][slot]]
    /\ UNCHANGED <<db, ctx, own, switched, ret, cacheVars, mwVars, saved, tx>>

NextCtx == ThreadSet \/ ThreadGet

SpecCtx == InitCtxStore /\ [][NextCtx]_vars

\* C3: a get in one request returns the value that request's own unit of
\* execution set last (None when it set none), never a value written by another
\* concurrently running request, under every interleaving of set and get.
C3_NoCrossRequestLeak == lastGet.thr # None => lastGet.val = lastGet.own

\* C3 witness: a get returned the caller's own tenant while another running
\* request held a different tenant in its slot.
C3_Witness ==
  /\ lastGet.thr # None /\ lastGet.slot = "tenant"
  /\ lastGet.val # None /\ lastGet.foreign

\* ---------------------------------------------------------------- SpecCache
\* One caller at a time: slug lookups, invalidations, TTL expiry, and tenants
\* being deactivated, reactivated and deleted in the store.
InitCacheSeq ==
  /\ db = Database(DefaultShape)
  /\ InitCtx
  /\ InitCache
  /\ InitMw
  /\ ret = NoRows

Lookup ==
  \E slug \in Slugs :
    LET r == get_tenant_by_slug(cache, slug) IN
    /\ cache' = r.cache
    /\ lastLookup' = [slug |-> slug, done |-> TRUE, tenant |-> r.tenant, queried |-> r.queried,
                      was |-> mark[slug],
                      stored |-> IF \E t \in DOMAIN db.TenantAccount :
                                      /\ db.TenantAccount[t].tenant_slug = slug
                                      /\ db.TenantAccount[t].is_active
                                   THEN CHOOSE t \in DOMAIN db.TenantAccount :
                                          db.TenantAccount[t].tenant_slug = slug
                                   ELSE None]
    /\ mark' = [mark EXCEPT ![slug] = "fresh"]
    /\ UNCHANGED <<db, ctxVars, ret, lk, retired, mwVars, saved, tx>>

Invalidate ==
  \E slug \in Slugs :
    /\ cache' = invalidate_tenant_cache(cache, slug)
    /\ mark' = [mark EXCEPT ![slug] = "invalidated"]
    /\ UNCHANGED <<db, ctxVars, ret, lastLookup, lk, retired, mwVars, saved, tx>>

\* The entry of slug outlives CACHE_TIMEOUT and is dropped.
Expire ==
  \E slug \in Slugs :
    /\ cache[slug].present
    /\ cache' = cache_delete(cache, slug)
    /\ mark' = [mark EXCEPT ![slug] = "none"]
    /\ UNCHANGED <<db, ctxVars, ret, lastLookup, lk, retired, mwVars, saved, tx>>

\* An administrator flips is_active of a tenant account.
SetActive ==
  \E t \in DOMAIN db.TenantAccount, b \in BOOLEAN :
    /\ db.TenantAccount[t].is_active # b
    /\ db' = [db EXCEPT !.TenantAccount[t].is_active = b]
    /\ UNCHANGED <<ctxVars, ret, cacheVars, mwVars, saved, tx>>

DeleteTenant ==
  \E t \in DOMAIN db.TenantAccount :
    /\ db' = DeleteCascade(db, t)
    /\ UNCHANGED <<ctxVars, ret, cacheVars, mwVars, saved, tx>>

NextCache == Lookup \/ Invalidate \/ Expire \/ SetActive \/ DeleteTenant

SpecCache == InitCacheSeq /\ [][NextCache]_vars

\* C7 (as stated): a lookup of a slug made after an earlier lookup of it, with no
\* invalidation and no expiry in between, does not query the durable store,
\* whether the earlier lookup found a tenant or none.
C7_SecondLookupCached ==
  (lastLookup.done /\ lastLookup.was = "fresh") => ~lastLookup.queried

\* C8: the first lookup of a slug after invalidate_tenant_cache(slug) queries the
\* durable store and returns what the store holds then: the active tenant of
\* that slug, or None when it was deactivated or deleted.
C8_InvalidateThenFresh ==
  (lastLookup.done /\ lastLookup.was = "invalidated") =>
    (lastLookup.queried /\ lastLookup.tenant = lastLookup.stored)

\* C8 witness: a tenant was looked up (cached), then deactivated or deleted, its
\* slug invalidated, and the next lookup returned None.
C8_Witness ==
  /\ lastLookup.done /\ lastLookup.was = "invalidated"
  /\ lastLookup.slug # UnknownSlug /\ lastLookup.tenant = None

\* ----------------------------------------------------------------- SpecRace
\* Threads run get_tenant_by_slug statement by statement against the shared
\* cache while a tenant is deactivated and its slug invalidated.
LookupGet ==
  \E thr \in Threads, slug \in Slugs :
    /\ lk[thr].pc = "idle"
    /\ IF cache_get(slug) # None
         THEN /\ lastLookup' = [slug |-> slug, done |-> TRUE, tenant |-> cache_get(slug),
                                queried |-> FALSE, was |-> mark[slug], stored |-> TenantBySlug(slug)]
              /\ UNCHANGED lk
         ELSE /\ lk' = [lk EXCEPT ![thr] = [pc |-> "query", slug |-> slug, tenant |-> None]]
              /\ UNCHANGED lastLookup
    /\ UNCHANGED <<db, ctxVars, ret, cache, mark, retired, mwVars, saved, tx>>

LookupQuery ==
  \E thr \in Threads :
    /\ lk[thr].pc = "query"
    /\ lk' = [lk EXCEPT ![thr] = [pc |-> "set", slug |-> lk[thr].slug,
                                  tenant |-> TenantBySlug(lk[thr].slug)]]
    /\ UNCHANGED <<db, ctxVars, ret, cache, mark, lastLookup, retired, mwVars, saved, tx>>

LookupSet ==
  \E thr \in Threads :
    /\ lk[thr].pc = "set"
    /\ cache' = cache_set(cache, lk[thr].slug, lk[thr].tenant)
    /\ mark' = [mark EXCEPT ![lk[thr].slug] = "fresh"]
    /\ lastLookup' = [slug |-> lk[thr].slug, done |-> TRUE, tenant |-> lk[thr].tenant,
                      queried |-> TRUE, was |-> mark[lk[thr].slug],
                      stored |-> TenantBySlug(lk[thr].slug)]
    /\ lk' = [lk EXCEPT ![thr] = Idle]
    /\ UNCHANGED <<db, ctxVars, ret, retired, mwVars, saved, tx>>

Deactivate ==
  \E t \in DOMAIN db.TenantAccount :
    /\ db.TenantAccount[t].is_active
    /\ db' = [db EXCEPT !.TenantAccount[t].is_active = FALSE]
    /\ UNCHANGED <<ctxVars, ret, cacheVars, mwVars, saved, tx>>

InvalidateShared ==
  \E slug \in Slugs :
    /\ cache' = invalidate_tenant_cache(cache, slug)
    /\ mark' = [mark EXCEPT ![slug] = "invalidated"]
    /\ retired' = retired \cup {t \in DOMAIN db.TenantAccount :
                       db.TenantAccount[t].tenant_slug = slug /\ ~db.TenantAccount[t].is_active}
    /\ UNCHANGED <<db, ctxVars, ret, lastLookup, lk, mwVars, saved, tx>>

NextRace == LookupGet \/ LookupQuery \/ LookupSet \/ Deactivate \/ InvalidateShared

SpecRace == InitCacheSeq /\ [][NextRace]_vars

\* C9 (as stated): once a tenant was deactivated, its slug invalidated and the
\* lookups in flight have finished, the cache holds no entry for that tenant, so
\* no later lookup returns it.
C9_NoStaleAfterInvalidate ==
  (\A thr \in Threads : lk[thr].pc = "idle") =>
    \A t \in retired : cache_get(db.TenantAccount[t].tenant_slug) # t

\* The rows of `kind` whose tenant field is t / whose organization field is o.
OfTenant(kind, t) == {i \in DOMAIN db[kind] : db[kind][i].tenant = t}
OfOrganization(kind, o) == {i \in DOMAIN db[kind] : db[kind][i].organization = o}

\* C1 (as stated): with context tenant T, objects of MemberAccount, Club and
\* Contact is exactly the all_objects rows whose tenant is T, whatever tenants
\* were set before.
C1_AsStated ==
  (ret.done /\ ctx[Worker].tenant # None) =>
    \A k \in {"MemberAccount", "Club", "Contact"} : ret.rows[k] = OfTenant(k, ctx[Worker].tenant)

\* C1 (amended): with context tenant T, objects of MemberAccount and Club is
\* exactly the all_objects rows whose tenant is T; Contact.objects is the same
\* while the organization slot is empty, and with organization O in the context
\* it is exactly the rows whose tenant is T and whose organization is O. No row
\* of a tenant set earlier is returned.
C1_TenantScoped ==
  (ret.done /\ ctx[Worker].tenant # None) =>
    /\ \A k \in {"MemberAccount", "Club"} : ret.rows[k] = OfTenant(k, ctx[Worker].tenant)
    /\ ctx[Worker].organization = None => ret.rows.Contact = OfTenant("Contact", ctx[Worker].tenant)
    /\ ctx[Worker].organization # None =>
         ret.rows.Contact = OfTenant("Contact", ctx[Worker].tenant)
                         \cap OfOrganization("Contact", ctx[Worker].organization)

\* C1 witness: after a switch from one tenant to another, a query returned rows
\* while rows of another tenant are stored.
C1_Witness ==
  /\ switched /\ ret.done /\ ctx[Worker].tenant # None
  /\ ret.rows.MemberAccount # {} /\ ret.rows.Contact # {}
  /\ \E i \in DOMAIN db.MemberAccount : db.MemberAccount[i].tenant # ctx[Worker].tenant

lower(label) ==
  CASE label = "ACME" -> "acme"
    [] label = "WWW" -> "www"
    [] OTHER -> label

\* str.startswith(prefix), label by label.
startswith(s, prefix) ==
  /\ Len(s) >= Len(prefix)
  /\ \A i \in 1..Len(prefix) : s[i] = prefix[i]

LoopbackHosts == {<<"localhost">>, <<"127", "0", "0", "1">>, <<"0", "0", "0", "0">>}
ReservedSubdomains == {"www", "api", "admin", "static", "media"}

\* request.path.strip("/").split("/"): the path "/" splits into one empty segment.
path_parts(path) == IF path = <<>> THEN <<"">> ELSE path

\* request.path.startswith("/admin/")
IsAdminPath(path) == startswith(path, <<"admin">>)

Hosts ==
  {<<s, "onespirit", "com">> : s \in Slugs}
    \cup {<<"ACME", "onespirit", "com">>, <<"www", "onespirit", "com">>,
          <<"onespirit", "com">>, <<"acme", "com">>, <<"localhost">>, <<"127", "0", "0", "1">>}

\* The hosts for which the subdomain strategy is to be skipped: a reserved first
\* label, a loopback prefix, or fewer than three labels.
SkippedHost(host) ==
  \/ host[1] \in ReservedSubdomains
  \/ \E p \in LoopbackHosts : startswith(host, p)
  \/ Len(host) < 3

Paths == {<<>>, <<"admin">>, <<"tenant">>} \cup {<<"tenant", s>> : s \in Slugs}

\* request.user: None is the AnonymousUser.
RequestUsers == {None} \cup {u \in Users : u # 3}

\* request.POST: whether it carries admin_tenant_selection, and selected_tenant.
NoSuchTenant == MaxTenants + 1
Posts ==
  {[sel |-> FALSE, id |-> None]}
    \cup {[sel |-> TRUE, id |-> i] : i \in Tenants \cup {None, NoSuchTenant}}

\* TenantAccount.objects.get(id=tenant_id, is_active=True); None stands for
\* TenantAccount.DoesNotExist.
TenantById(id) ==
  IF id \in DOMAIN db.TenantAccount /\ db.TenantAccount[id].is_active THEN id ELSE None

\* ---------------------------------------------------------- tenant resolver
\* The subdomain strategy without the list of reserved subdomains (a slug no
\* tenant has and the cache never held yields no tenant).
SubdomainWithoutReserved(c, host) ==
  LET h == [i \in 1..Len(host) |-> lower(host[i])] IN
  IF \E p \in LoopbackHosts : startswith(h, p)
    THEN [tenant |-> None, cache |-> c, lookup |-> ""]
    ELSE IF Len(h) >= 3
           THEN IF h[1] \in DOMAIN c
                  THEN LET r == get_tenant_by_slug(c, h[1]) IN
                       [tenant |-> r.tenant, cache |-> r.cache, lookup |-> h[1]]
                  ELSE [tenant |-> None, cache |-> c, lookup |-> h[1]]
           ELSE [tenant |-> None, cache |-> c, lookup |-> ""]

\* Each strategy returns the tenant it yields and the cache / session it leaves;
\* the subdomain strategy also the slug it looked up ("" when it made no lookup).
_get_tenant_from_subdomain(c, host) ==
  LET h == [i \in 1..Len(host) |-> lower(host[i])] IN
  IF \E p \in LoopbackHosts : startswith(h, p)
    THEN [tenant |-> None, cache |-> c, lookup |-> ""]
    ELSE IF Len(h) >= 3 /\ h[1] \notin ReservedSubdomains
           THEN LET r == get_tenant_by_slug(c, h[1]) IN
                [tenant |-> r.tenant, cache |-> r.cache, lookup |-> h[1]]
           ELSE [tenant |-> None, cache |-> c, lookup |-> ""]

_get_tenant_from_path(c, path) ==
  LET parts == path_parts(path) IN
  IF Len(parts) >= 2 /\ parts[1] = "tenant"
    THEN LET r == get_tenant_by_slug(c, parts[2]) IN [tenant |-> r.tenant, cache |-> r.cache]
    ELSE [tenant |-> None, cache |-> c]

\* The session strategy without the clean-up of an invalid session entry.
SessionEntryKept(sess) ==
  [tenant |-> IF sess # None THEN TenantById(sess) ELSE None, session |-> sess]

_get_tenant_from_session(sess) ==
  IF sess # None
    THEN IF TenantById(sess) # None
           THEN [tenant |-> TenantById(sess), session |-> sess]
           ELSE [tenant |-> None, session |-> None]     \* session.pop
    ELSE [tenant |-> None, session |-> sess]

\* The resolver with the URL path tried before the subdomain.
PathBeforeSubdomain(c, sess, host, path) ==
  LET a == _get_tenant_from_path(c, path) IN
  IF a.tenant # None
    THEN [tenant |-> a.tenant, cache |-> a.cache, session |-> sess]
    ELSE LET b == _get_tenant_from_subdomain(a.cache, host) IN
         IF b.tenant # None
           THEN [tenant |-> b.tenant, cache |-> b.cache, session |-> sess]
           ELSE LET s == _get_tenant_from_session(sess) IN
                [tenant |-> s.tenant, cache |-> b.cache, session |-> s.session]

\* TenantContextMiddleware.get_tenant_from_request
get_tenant_from_request(c, sess, host, path) ==
  LET a == _get_tenant_from_subdomain(c, host) IN
  IF a.tenant # None
    THEN [tenant |-> a.tenant, cache |-> a.cache, session |-> sess]
    ELSE LET b == _get_tenant_from_path(a.cache, path) IN
         IF b.tenant # None
           THEN [tenant |-> b.tenant, cache |-> b.cache, session |-> sess]
           ELSE LET s == _get_tenant_from_session(sess) IN
                [tenant |-> s.tenant, cache |-> b.cache, session |-> s.session]

\* ---------------------------------------------------------- middleware chain
\* The context tenant TenantContextMiddleware.__call__ leaves when the slot held
\* `before` and the resolver returned `tenant`; first without the initial clear.
SetWithoutClear(before, tenant) == IF tenant # None THEN tenant ELSE before
\* The same call attaching the tenant to the request only, not to the context.
ContextLeftEmpty(before, tenant) == None
tenant_context_after(before, tenant) ==
  LET cleared == None IN              \* set_current_tenant(None)
  IF tenant # None THEN tenant ELSE cleared

\* The admin tenant selection storing the submitted id as it is, and leaving
\* an entry that names no active tenant in the session.
SelectionStoredUnchecked(sess, sel, selId) ==
  LET s1 == IF sel THEN selId ELSE sess IN
  [session |-> s1, tenant |-> IF s1 # None THEN TenantById(s1) ELSE None]

\* AdminTenantContextMiddleware._handle_admin_tenant_selection: the session it
\* leaves and the tenant it puts in the context and on the request (None: none).
_handle_admin_tenant_selection(sess, sel, selId) ==
  LET s1 == IF sel THEN (IF selId # None THEN TenantById(selId) ELSE None) ELSE sess
      t == IF s1 # None THEN TenantById(s1) ELSE None IN
  [session |-> IF t # None THEN s1 ELSE None, tenant |-> t]

\* TenantAccessControlMiddleware._user_can_access_tenant: "allow" (True), "deny"
\* (False) or "raise". people.models defines no UserProfile: the import in the
\* try block fails and evaluating `except UserProfile.DoesNotExist` then raises.
_user_can_access_tenant(user, tenant) ==
  IF UserTable[user].is_superuser THEN "allow" ELSE "raise"

\* The user has a LoginUser row whose contact is stored.
HasLoginUser(user) ==
  /\ UserTable[user].login_contact # None
  /\ UserTable[user].login_contact \in DOMAIN db.Contact

\* LoginUser.can_access_tenant
can_access_tenant(user, tenant) == db.Contact[UserTable[user].login_contact].tenant = tenant

\* The order of the three interceptors, and the handler after them.
MIDDLEWARE == <<"TenantContextMiddleware", "AdminTenantContextMiddleware",
                "TenantAccessControlMiddleware">>
Stage(i) == IF i <= Len(MIDDLEWARE) THEN MIDDLEWARE[i] ELSE "view"
get_response(layer) ==
  Stage(1 + (CHOOSE i \in 1..Len(MIDDLEWARE) : MIDDLEWARE[i] = layer))

\* -------------------------------------------------------------- SpecResolve
\* The resolver is called on requests of one client, whose session an admin
\* tenant selection fills, while tenants are deactivated, reactivated and
\* deleted and cache entries expire. Resolve is TenantContextMiddleware.__call__
\* up to the point where it hands the request on. req records the last call:
\* what each strategy yields on its own in the state of the call, what was
\* returned, the session id and the context tenant found at the start, the
\* slug the subdomain strategy looked up, whether the host is one to skip, and
\* the active tenant whose slug is the host's first label.
InitRequests ==
  /\ db = Database(DefaultShape)
  /\ InitCtx
  /\ InitCache
  /\ InitMw
  /\ ret = NoRows

Resolve ==
  \E host \in Hosts, path \in Paths :
    LET r == get_tenant_from_request(cache, session, host, path)
        before == get_current_tenant(Worker) IN
    /\ req.pc = "idle"
    /\ cache' = r.cache
    /\ session' = r.session
    /\ SetSlot(Worker, "tenant", tenant_context_after(before, r.tenant))
    /\ req' = [NoReq EXCEPT !.pc = "done", !.outcome = "resolved", !.resolved = r.tenant,
                            !.tenant = r.tenant,
                            !.sub = _get_tenant_from_subdomain(cache, host).tenant,
                            !.path = _get_tenant_from_path(cache, path).tenant,
                            !.sess = _get_tenant_from_session(session).tenant,
                            !.had = session, !.stale = before,
                            !.lookup = _get_tenant_from_subdomain(cache, host).lookup,
                            !.skipped = SkippedHost(host),
                            !.named = TenantBySlug(host[1])]
    /\ UNCHANGED <<db, lastGet, switched, ret, mark, lastLookup, lk, retired, saved, tx>>

\* An admin request submits the tenant selection form.
SelectTenant ==
  \E id \in Tenants \cup {None} :
    /\ req.pc = "idle"
    /\ session' = _handle_admin_tenant_selection(session, TRUE, id).session
    /\ UNCHANGED <<db, ctxVars, ret, cacheVars, req, saved, tx>>

\* The call returns; the worker is free again.
Respond ==
  /\ req.pc = "done"
  /\ req' = NoReq
  /\ UNCHANGED <<db, ctxVars, ret, cacheVars, session, saved, tx>>

\* Between two requests an administrator flips is_active of a tenant account or
\* deletes one, or a cache entry expires.
BetweenSetActive == req.pc = "idle" /\ SetActive
BetweenDeleteTenant == req.pc = "idle" /\ DeleteTenant
BetweenExpire == req.pc = "idle" /\ Expire

NextResolve ==
  \/ Resolve
  \/ Respond
  \/ SelectTenant
  \/ BetweenSetActive
  \/ BetweenDeleteTenant
  \/ BetweenExpire

SpecResolve == InitRequests /\ [][NextResolve]_vars

\* ------------------------------------------------------------------- SpecMw
\* One worker handles requests of one client one after another, each through
\* the chain, while tenants are deactivated, reactivated and deleted and cache
\* entries expire.
TenantContextMiddleware_call ==
  \E host \in Hosts, path \in Paths, user \in RequestUsers, post \in Posts :
    /\ req.pc = "idle"
    /\ post.sel => IsAdminPath(path)
    /\ LET r == get_tenant_from_request(cache, session, host, path)
           before == get_current_tenant(Worker) IN
       /\ cache' = r.cache
       /\ session' = r.session
       /\ SetSlot(Worker, "tenant", tenant_context_after(before, r.tenant))
       /\ req' = [pc |-> get_response("TenantContextMiddleware"), user |-> user,
                  admin |-> IsAdminPath(path), sel |-> post.sel, selId |-> post.id,
                  tenant |-> r.tenant, resolved |-> r.tenant,
                  sub |-> None, path |-> None, sess |-> None,
                  had |-> None, lookup |-> "", skipped |-> FALSE, named |-> None,
                  stale |-> before, outcome |-> "pending", entitled |-> FALSE,
                  touched |-> FALSE]
    /\ UNCHANGED <<db, lastGet, switched, ret, mark, lastLookup, lk, retired, saved, tx>>

AdminTenantContextMiddleware_call ==
  /\ req.pc = "AdminTenantContextMiddleware"
  /\ LET next == [NoReq EXCEPT !.pc = get_response("AdminTenantContextMiddleware"),
                               !.user = req.user, !.tenant = req.tenant,
                               !.admin = req.admin, !.sel = req.sel, !.selId = req.selId,
                               !.outcome = "pending"] IN
     IF req.admin /\ req.user # None
       THEN LET h == _handle_admin_tenant_selection(session, req.sel, req.selId) IN
            /\ session' = h.session
            /\ IF h.tenant # None
                 THEN /\ SetSlot(Worker, "tenant", h.tenant)
                      /\ req' = [next EXCEPT !.tenant = h.tenant]
                 ELSE /\ req' = next
                      /\ UNCHANGED <<ctx, own, saved, tx>>
       ELSE /\ req' = next
            /\ UNCHANGED <<session, ctx, own, saved, tx>>
  /\ UNCHANGED <<db, lastGet, switched, ret, cacheVars, saved, tx>>

TenantAccessControlMiddleware_call ==
  /\ req.pc = "TenantAccessControlMiddleware"
  /\ IF req.tenant # None /\ req.user # None
       THEN LET can == _user_can_access_tenant(req.user, req.tenant)
                ent == HasLoginUser(req.user) /\ can_access_tenant(req.user, req.tenant) IN
            req' = [req EXCEPT
                      !.admin = FALSE, !.sel = FALSE, !.selId = None,
                      !.entitled = ent,
                      !.pc = IF can = "allow"
                               THEN get_response("TenantAccessControlMiddleware") ELSE "done",
                      !.outcome = CASE can = "allow" -> "pending"
                                    [] can = "deny" -> "forbidden"   \* PermissionDenied
                                    [] can = "raise" -> "error"]
       ELSE req' = [req EXCEPT !.pc = get_response("TenantAccessControlMiddleware"),
                               !.admin = FALSE, !.sel = FALSE, !.selId = None]
  /\ UNCHANGED <<db, ctxVars, ret, cacheVars, session, saved, tx>>

\* The downstream handler runs and the response is returned.
View ==
  /\ req.pc = "view"
  /\ req' = [req EXCEPT !.pc = "done", !.outcome = "handled"]
  /\ UNCHANGED <<db, ctxVars, ret, cacheVars, session, saved, tx>>

NextMw ==
  \/ TenantContextMiddleware_call
  \/ AdminTenantContextMiddleware_call
  \/ TenantAccessControlMiddleware_call
  \/ View
  \/ Respond
  \/ BetweenSetActive
  \/ BetweenExpire

SpecMw == InitRequests /\ [][NextMw]_vars

\* ------------------------------------------------------- middleware claims
\* The downstream handler of the request was invoked / the chain ended the
\* request with an exception before the handler ran.
Invoked == req.pc = "view" \/ (req.pc = "done" /\ req.outcome = "handled")
Aborted == req.pc = "done" /\ req.outcome \in {"forbidden", "error"}

\* C4 (as stated): for a request with a tenant attached and an authenticated
\* actor, a superuser always reaches the handler; any other actor reaches it
\* only with a profile whose can_access_tenant(tenant) is true, and otherwise the
\* request ends with PermissionDenied before the handler runs.
C4_AccessControl ==
  ((Invoked \/ Aborted) /\ req.tenant # None /\ req.user # None) =>
    IF UserTable[req.user].is_superuser
      THEN Invoked
      ELSE /\ Invoked => req.entitled
           /\ ~req.entitled => req.outcome = "forbidden"

\* C5 (as stated): the chain aborts a request only when a tenant is attached,
\* the actor is authenticated and the entitlement check failed; a request with
\* no tenant attached (unresolved slug, stale session id) or with an anonymous
\* actor always reaches the handler.
C5_AbortOnlyOnEntitlementFailure ==
  /\ Aborted => /\ req.tenant # None /\ req.user # None
                /\ ~UserTable[req.user].is_superuser /\ ~req.entitled
  /\ ((Invoked \/ Aborted) /\ (req.tenant = None \/ req.user = None)) => Invoked

\* C6: get_tenant_from_request returns what the subdomain strategy yields when
\* it yields a tenant, else what the path strategy yields when it yields one,
\* else what the session strategy yields; None only when all three yield none.
C6_FirstStrategyWins ==
  req.outcome = "resolved" =>
    /\ req.sub # None => req.resolved = req.sub
    /\ (req.sub = None /\ req.path # None) => req.resolved = req.path
    /\ (req.sub = None /\ req.path = None) => req.resolved = req.sess
    /\ req.resolved = None <=> (req.sub = None /\ req.path = None /\ req.sess = None)

\* C6 witness: a call on which all three strategies yield a tenant, the path and
\* the session a different one than the subdomain.
C6_Witness ==
  /\ req.outcome = "resolved"
  /\ req.sub # None /\ req.path # None /\ req.sess # None
  /\ req.path # req.sub /\ req.sess # req.sub
  /\ req.resolved = req.sub

OfClubTenant(kind, t) == {i \in DOMAIN db[kind] : db.Club[db[kind][i].club].tenant = t}
StaffClubs(u) ==
  {db.ClubStaff[x].club : x \in {y \in DOMAIN db.ClubStaff :
      db.ClubStaff[y].contact = UserTable[u].login_contact /\ db.ClubStaff[y].is_active}}

\* C11 (as stated): with tenant T and acting user U in the context, ClubStaff and
\* ClubMember objects is every row of T when U is a superuser or admin-level, and
\* otherwise exactly the rows of T whose club U's contact actively staffs (empty
\* when U has no login profile or no active assignment).
C11_UserScoped ==
  (ret.done /\ ctx[Worker].tenant # None /\ ctx[Worker].user # None) =>
    LET u == ctx[Worker].user
        t == ctx[Worker].tenant IN
    \A k \in {"ClubStaff", "ClubMember"} :
      IF UserTable[u].is_superuser
           \/ (UserTable[u].login_contact # None /\ UserTable[u].level = "admin")
        THEN ret.rows[k] = OfClubTenant(k, t)
        ELSE IF UserTable[u].login_contact = None
               THEN ret.rows[k] = {}
               ELSE ret.rows[k] = {i \in OfClubTenant(k, t) : db[k][i].club \in StaffClubs(u)}

C13_JoinTablesByClubTenant ==
  (ret.done /\ ctx[Worker].tenant # None /\ ctx[Worker].user = None) =>
    /\ \A k \in {"ClubStaff", "ClubMember"} : ret.rows[k] = OfClubTenant(k, ctx[Worker].tenant)
    /\ ret.rows.ClubAffiliation =
         {i \in DOMAIN db.ClubAffiliation :
            db.Club[db.ClubAffiliation[i].club_primary].tenant = ctx[Worker].tenant}

\* C13 witness: such a query returned an affiliation whose secondary club is of
\* another tenant, and left out a staff row of another tenant.
C13_Witness ==
  /\ ret.done /\ ctx[Worker].tenant # None /\ ctx[Worker].user = None
  /\ \E i \in ret.rows.ClubAffiliation :
       db.Club[db.ClubAffiliation[i].club_secondary].tenant # ctx[Worker].tenant
  /\ ret.all.ClubStaff \ ret.rows.ClubStaff # {}
  /\ ret.rows.ClubMember # {}

\* C14: with tenant T and organization O both in the context, Contact.objects is
\* exactly the contacts whose tenant is T and whose organization is O, while
\* Contact.all_objects is every stored contact.
C14_TenantAndOrganization ==
  (ret.done /\ ctx[Worker].tenant # None /\ ctx[Worker].organization # None) =>
    /\ ret.rows.Contact = {i \in DOMAIN db.Contact :
                             /\ db.Contact[i].tenant = ctx[Worker].tenant
                             /\ db.Contact[i].organization = ctx[Worker].organization}
    /\ ret.all.Contact = DOMAIN db.Contact

\* C14 witness: the query returned a contact and left out a contact of O that
\* belongs to another tenant.
C14_Witness ==
  /\ ret.done /\ ctx[Worker].tenant # None /\ ctx[Worker].organization # None
  /\ ret.rows.Contact # {}
  /\ \E i \in ret.all.Contact \ ret.rows.Contact :
       db.Contact[i].organization = ctx[Worker].organization

\* ------------------------------------------------------------------ SpecClub
\* Clubs are created and renamed one save at a time, under any context tenant.
ClubNames == 1..MaxNames

\* The next primary key of a table.
NextId(table) == IF DOMAIN table = {} THEN 1
                 ELSE 1 + CHOOSE i \in DOMAIN table : \A j \in DOMAIN table : j <= i

\* Club.clean for instance club = [pk, tenant, name] (pk = None: not stored yet)
\* with the stored clubs read through the context-scoped accessor.
Club_clean_scoped(thr, club) ==
  LET rows == objects(thr, "Club")
      max_clubs == db.TenantAccount[club.tenant].max_clubs IN
  IF \E i \in rows : /\ db.Club[i].name = club.name /\ db.Club[i].tenant = club.tenant
                     /\ i # club.pk
    THEN "name exists"
    ELSE IF /\ club.pk = None /\ max_clubs # 0 /\ max_clubs > 0
            /\ Cardinality({i \in rows : db.Club[i].tenant = club.tenant}) >= max_clubs
           THEN "quota exceeded"
           ELSE "ok"

\* Club.clean: "ok", or the ValidationError it raises.
Club_clean(thr, club) ==
  LET rows == all_objects("Club")
      max_clubs == db.TenantAccount[club.tenant].max_clubs IN
  IF \E i \in rows : /\ db.Club[i].name = club.name /\ db.Club[i].tenant = club.tenant
                     /\ i # club.pk
    THEN "name exists"
    ELSE IF /\ club.pk = None /\ max_clubs # 0 /\ max_clubs > 0
            /\ Cardinality({i \in rows : db.Club[i].tenant = club.tenant}) >= max_clubs
           THEN "quota exceeded"
           ELSE "ok"

\* The clubs of tenant t in store d.
ClubsOf(d, t) == {i \in DOMAIN d.Club : d.Club[i].tenant = t}

\* What the stored data alone say about instance club: its name is taken by
\* another club of its tenant / its tenant's quota is used up.
NameTaken(d, club) ==
  \E i \in DOMAIN d.Club :
    d.Club[i].name = club.name /\ d.Club[i].tenant = club.tenant /\ i # club.pk
QuotaUsedUp(d, club) ==
  Cardinality(ClubsOf(d, club.tenant)) >= d.TenantAccount[club.tenant].max_clubs

\* A thread other than the Worker; nothing sets its context in a club scenario.
Bystander == CHOOSE t \in Threads : t # Worker

\* Club.save: full_clean, then the row is written. saved.plain is the outcome of
\* the same validation for a caller whose context is empty.
Club_save(thr, club) ==
  LET result == Club_clean(thr, club)
      pk == IF club.pk = None THEN NextId(db.Club) ELSE club.pk IN
  /\ saved' = [kind |-> "Club", club |-> club, result |-> result, context |-> get_current_tenant(thr),
               plain |-> Club_clean(Bystander, club),
               taken |-> NameTaken(db, club), full |-> QuotaUsedUp(db, club)]
  /\ db' = IF result = "ok"
             THEN [db EXCEPT !.Club = [i \in DOMAIN db.Club \cup {pk} |->
                                         IF i = pk THEN [tenant |-> club.tenant, name |-> club.name]
                                                   ELSE db.Club[i]]]
             ELSE db

\* No club stored yet; every tenant has the same quota, any of 0..MaxQuota.
InitClub ==
  /\ \E n \in 0..MaxQuota :
       db = [Database(DefaultShape) EXCEPT
               !.TenantAccount = [t \in Tenants |->
                                    [tenant_slug |-> SlugOf(t), is_active |-> TRUE, max_clubs |-> n]],
               !.Club = <<>>, !.ClubStaff = <<>>, !.ClubMember = <<>>, !.ClubAffiliation = <<>>]
  /\ InitCtx
  /\ InitCache
  /\ InitMw
  /\ ret = NoRows

CreateClub ==
  \E t \in DOMAIN db.TenantAccount, n \in ClubNames :
    /\ \/ Cardinality(DOMAIN db.Club) < MaxClubs
       \/ Club_clean(Worker, [pk |-> None, tenant |-> t, name |-> n]) # "ok"
    /\ Club_save(Worker, [pk |-> None, tenant |-> t, name |-> n])
    /\ UNCHANGED <<ctxVars, ret, cacheVars, mwVars, tx>>

RenameClub ==
  \E i \in DOMAIN db.Club, n \in ClubNames :
    /\ Club_save(Worker, [pk |-> i, tenant |-> db.Club[i].tenant, name |-> n])
    /\ UNCHANGED <<ctxVars, ret, cacheVars, mwVars, tx>>

\* The caller of the next save runs under another context tenant, or none.
CallerTenant ==
  \E v \in Tenants \cup {None} :
    /\ SetSlot(Worker, "tenant", v)
    /\ UNCHANGED <<db, lastGet, switched, ret, cacheVars, mwVars, saved, tx>>

NextClub == CreateClub \/ RenameClub \/ CallerTenant

SpecClub == InitClub /\ [][NextClub]_vars

\* C15 (as stated): for a tenant with max_clubs = N, any N >= 0, the number of
\* its clubs never exceeds N, and creating a club (with a name not yet used in
\* the tenant) succeeds exactly when fewer than N clubs of the tenant exist.
C15_ClubQuota ==
  /\ \A t \in DOMAIN db.TenantAccount :
       Cardinality(ClubsOf(db, t)) <= db.TenantAccount[t].max_clubs
  /\ (saved.kind = "Club" /\ saved.club.pk = None /\ ~saved.taken) =>
       (saved.result = "ok" <=> ~saved.full)

\* C16: the outcome of Club validation is the one a caller with an empty context
\* gets for the same club and the same stored data, under every context tenant;
\* the name check fails exactly when the stored data hold another club of that
\* name in the club's tenant, visible to the caller's context or not.
C16_ValidationIgnoresContext ==
  saved.kind = "Club" =>
    /\ saved.result = saved.plain
    /\ saved.result = "name exists" <=> saved.taken

\* C16 witness: a save made under the context of another tenant was rejected
\* because of a club that the context-scoped accessor does not return.
C16_Witness ==
  /\ saved.kind = "Club" /\ saved.context # None /\ saved.context # saved.club.tenant
  /\ saved.result # "ok"
  /\ \E t \in DOMAIN db.TenantAccount :
       t # saved.context /\ ClubsOf(db, t) # {}

\* ---------------------------------------------------------------- SpecStatus
\* Member accounts with any is_active flag and membership_end_date are
\* classified by get_by_status on any day, under any context tenant.
Days == 1..MaxDays
Statuses == {"inactive", "expired", "active"}
OtherStatuses == {"", "ACTIVE", "invalid_status"}

\* MemberAccount.is_membership_active / get_membership_status on day `today`.
is_membership_active(m, today) ==
  IF m.membership_end_date = None THEN TRUE ELSE m.membership_end_date >= today

get_membership_status(m, today) ==
  IF ~m.is_active THEN "inactive"
  ELSE IF ~is_membership_active(m, today) THEN "expired"
  ELSE "active"

\* get_by_status with an end date of today counted as expired.
get_by_status_exclusive(thr, status, today) ==
  LET queryset == TenantAwareManager_get_queryset(thr, "MemberAccount")
      row(i) == db.MemberAccount[i] IN
  CASE status = "inactive" -> {i \in queryset : ~row(i).is_active}
    [] status = "expired" ->
         {i \in queryset : /\ row(i).is_active /\ row(i).membership_end_date # None
                           /\ row(i).membership_end_date <= today}
    [] status = "active" ->
         {i \in queryset : /\ row(i).is_active
                           /\ (row(i).membership_end_date = None
                                 \/ row(i).membership_end_date > today)}
    [] OTHER -> {}

\* MemberAccountManager.get_by_status, timezone.now().date() being `today`.
get_by_status(thr, status, today) ==
  LET queryset == TenantAwareManager_get_queryset(thr, "MemberAccount")
      row(i) == db.MemberAccount[i] IN
  CASE status = "inactive" -> {i \in queryset : ~row(i).is_active}
    [] status = "expired" ->
         {i \in queryset : /\ row(i).is_active /\ row(i).membership_end_date # None
                           /\ row(i).membership_end_date < today}
    [] status = "active" ->
         {i \in queryset : /\ row(i).is_active
                           /\ (row(i).membership_end_date = None
                                 \/ row(i).membership_end_date >= today)}
    [] OTHER -> {}

InitStatus ==
  /\ \E flags \in [Recs -> BOOLEAN], ends \in [Recs -> Days \cup {None}] :
       db = [Database(DefaultShape) EXCEPT
               !.MemberAccount = [i \in Recs |->
                  [tenant |-> DefaultShape[i][1], is_active |-> flags[i],
                   membership_end_date |-> ends[i]]]]
  /\ InitCtx
  /\ InitCache
  /\ InitMw
  /\ ret = NoRows

\* MemberAccount.objects.get_by_status(s) for every s, on one day.
GetByStatus ==
  \E today \in Days :
    /\ ret' = [done |-> FALSE, call |-> "get_by_status", today |-> today,
               scope |-> objects(Worker, "MemberAccount"),
               by |-> [s \in Statuses \cup OtherStatuses |-> get_by_status(Worker, s, today)]]
    /\ UNCHANGED <<db, ctxVars, cacheVars, mwVars, saved, tx>>

NextStatus == GetByStatus \/ CallerTenant

SpecStatus == InitStatus /\ [][NextStatus]_vars

\* C17: for every member account in scope and every day, get_by_status(s)
\* contains the account exactly when its get_membership_status() is s, so each
\* account is in exactly one of the three results; an active-flagged account
\* whose end date is today is in "active" and not in "expired"; any other status
\* string gives an empty result.
C17_StatusClassification ==
  ("by" \in DOMAIN ret) =>
    /\ \A s \in Statuses :
         ret.by[s] = {i \in ret.scope : get_membership_status(db.MemberAccount[i], ret.today) = s}
    /\ \A i \in ret.scope : Cardinality({s \in Statuses : i \in ret.by[s]}) = 1
    /\ \A i \in ret.scope :
         (db.MemberAccount[i].is_active /\ db.MemberAccount[i].membership_end_date = ret.today)
           => (i \in ret.by["active"] /\ i \notin ret.by["expired"])
    /\ \A s \in OtherStatuses : ret.by[s] = {}

\* C17 witness: a classification in which an active-flagged account in scope
\* ends today while another account in scope is expired.
C17_Witness ==
  /\ "by" \in DOMAIN ret
  /\ ctx[Worker].tenant = None
  /\ \E i \in ret.by["active"] : db.MemberAccount[i].membership_end_date = ret.today
  /\ ret.by["expired"] # {}

\* --------------------------------------------------------------- SpecPayment
\* One payment record is saved and saved again with any amount, processor fee,
\* status and payment date, at any time.
PaymentStatus == {"pending", "completed", "failed", "refunded", "partial_refund", "cancelled"}
RefundStatus == {"refunded", "partial_refund"}
Amounts == {-1, 0, 1}

\* PaymentHistory.clean without the rule on future payment dates.
PaymentHistory_clean_any_date(p, now) ==
  IF p.payment_status \notin RefundStatus /\ p.amount < 0 THEN "amount"
  ELSE IF p.processor_fee < 0 THEN "processor_fee"
  ELSE "ok"

\* PaymentHistory.clean at time `now`: "ok", or the field of the ValidationError.
PaymentHistory_clean(p, now) ==
  IF p.payment_status \notin RefundStatus /\ p.amount < 0 THEN "amount"
  ELSE IF p.processor_fee < 0 THEN "processor_fee"
  ELSE IF p.amount < 0 /\ p.payment_status \notin RefundStatus THEN "payment_status"
  ELSE IF p.payment_date > now /\ p.payment_status \notin {"pending"} THEN "payment_date"
  ELSE "ok"

\* PaymentHistory.save at time `now`: full_clean, then the row is written; the
\* stored row remembers whether its date was in the future when it was written.
PaymentHistory_save(pk, p, now) ==
  LET result == PaymentHistory_clean(p, now) IN
  /\ saved' = [kind |-> "PaymentHistory", result |-> result,
               negative |-> p.amount < 0, fee_negative |-> p.processor_fee < 0,
               future |-> p.payment_date > now, status |-> p.payment_status]
  /\ db' = IF result = "ok"
             THEN [db EXCEPT !.PaymentHistory =
                     [i \in DOMAIN db.PaymentHistory \cup {pk} |->
                        IF i = pk THEN [p EXCEPT !.future = p.payment_date > now] ELSE db.PaymentHistory[i]]]
             ELSE db

InitPayment ==
  /\ db = Database(DefaultShape) @@ [PaymentHistory |-> <<>>]
  /\ InitCtx
  /\ InitCache
  /\ InitMw
  /\ ret = NoRows

\* The record is created if none is stored, else the stored one is saved again.
SavePayment ==
  \E amount \in Amounts, fee \in Amounts, status \in PaymentStatus, date \in Days, now \in Days :
    /\ PaymentHistory_save(1, [amount |-> amount, processor_fee |-> fee, payment_status |-> status,
                               payment_date |-> date, future |-> FALSE], now)
    /\ UNCHANGED <<ctxVars, ret, cacheVars, mwVars, tx>>

NextPayment == SavePayment

SpecPayment == InitPayment /\ [][NextPayment]_vars

\* C18: a save fails when the amount is negative and the status is not a refund
\* status, and when the payment date is in the future and the status is not
\* pending; a record with non-negative amount and fee and a date not in the
\* future is accepted under every status; no stored record breaks either rule
\* as of the time it was written.
C18_PaymentValidation ==
  /\ saved.kind = "PaymentHistory" =>
       /\ (saved.negative /\ saved.status \notin RefundStatus) => saved.result # "ok"
       /\ (saved.future /\ saved.status # "pending") => saved.result # "ok"
       /\ (~saved.negative /\ ~saved.fee_negative /\ ~saved.future) => saved.result = "ok"
  /\ "PaymentHistory" \in DOMAIN db =>
       \A i \in DOMAIN db.PaymentHistory :
         LET p == db.PaymentHistory[i] IN
         /\ p.amount < 0 => p.payment_status \in RefundStatus
         /\ p.future => p.payment_status = "pending"

\* C18 witness: over a stored pending payment dated in the future, a save as
\* completed with the same future date was rejected.
C18_Witness ==
  /\ saved.kind = "PaymentHistory" /\ saved.result = "payment_date"
  /\ saved.status = "completed" /\ ~saved.negative
  /\ \E i \in DOMAIN db.PaymentHistory :
       /\ db.PaymentHistory[i].payment_status = "pending"
       /\ db.PaymentHistory[i].future

\* --------------------------------------------------------------- SpecAccount
\* Tenant accounts are created and saved again with or without a primary
\* contact; contacts are created for a stored tenant and switched between
\* active and inactive.
MaxContacts == 2

\* Account.clean that never asks for a primary contact.
Account_clean_optional_primary(d, acc) ==
  IF acc.primary_contact # None /\ ~d.Contact[acc.primary_contact].is_active
    THEN "primary contact must be active"
  ELSE "ok"

\* Account.clean for instance acc = [pk, primary_contact] over database d:
\* "ok", or the message of the ValidationError.
Account_clean(d, acc) ==
  IF acc.pk # None /\ acc.primary_contact = None THEN "primary contact is required"
  ELSE IF acc.primary_contact # None /\ ~d.Contact[acc.primary_contact].is_active
    THEN "primary contact must be active"
  ELSE "ok"

\* Account.save of a tenant account: full_clean, then the row is written. The
\* stored row remembers whether it was saved again after its creation.
Account_save(acc) ==
  LET result == Account_clean(db, acc)
      pk == IF acc.pk = None THEN NextId(db.TenantAccount) ELSE acc.pk
  IN
  /\ saved' = [kind |-> "TenantAccount", result |-> result, created |-> acc.pk = None,
               has_primary |-> acc.primary_contact # None,
               primary_active |-> acc.primary_contact # None
                                    /\ db.Contact[acc.primary_contact].is_active]
  /\ db' = IF result = "ok"
             THEN [db EXCEPT !.TenantAccount =
                     [i \in DOMAIN db.TenantAccount \cup {pk} |->
                        IF i = pk
                          THEN [tenant_slug |-> SlugOf(pk), is_active |-> TRUE,
                                max_clubs |-> DefaultMaxClubs,
                                primary_contact |-> acc.primary_contact,
                                resaved |-> acc.pk # None]
                          ELSE db.TenantAccount[i]]]
             ELSE db

InitAccount ==
  /\ db = [Database(DefaultShape) EXCEPT
             !.TenantAccount = <<>>, !.MemberAccount = <<>>, !.Contact = <<>>,
             !.Club = <<>>, !.ClubStaff = <<>>, !.ClubMember = <<>>, !.ClubAffiliation = <<>>]
  /\ InitCtx
  /\ InitCache
  /\ InitMw
  /\ ret = NoRows

\* TenantAccount.objects.create(...), with or without a primary contact.
CreateTenantAccount ==
  \E c \in DOMAIN db.Contact \cup {None} :
    /\ Cardinality(DOMAIN db.TenantAccount) < MaxTenants
    /\ Account_save([pk |-> None, primary_contact |-> c])
    /\ UNCHANGED <<ctxVars, ret, cacheVars, mwVars, tx>>

\* tenant.primary_contact = c; tenant.save()
SaveTenantAccount ==
  \E t \in DOMAIN db.TenantAccount, c \in DOMAIN db.Contact \cup {None} :
    /\ Account_save([pk |-> t, primary_contact |-> c])
    /\ UNCHANGED <<ctxVars, ret, cacheVars, mwVars, tx>>

\* Contact.objects.create(tenant=t, ...): the tenant must be stored already.
CreateContact ==
  \E t \in DOMAIN db.TenantAccount :
    /\ Cardinality(DOMAIN db.Contact) < MaxContacts
    /\ db' = [db EXCEPT !.Contact =
                Append(db.Contact, [tenant |-> t, organization |-> None, is_active |-> TRUE])]
    /\ UNCHANGED <<ctxVars, ret, cacheVars, mwVars, saved, tx>>

\* contact.is_active = flag; contact.save(): Contact validation does not look
\* at the accounts the contact is primary contact of.
SetContactActive ==
  \E c \in DOMAIN db.Contact, flag \in BOOLEAN :
    /\ db' = [db EXCEPT !.Contact[c].is_active = flag]
    /\ UNCHANGED <<ctxVars, ret, cacheVars, mwVars, saved, tx>>

NextAccount == CreateTenantAccount \/ SaveTenantAccount \/ CreateContact \/ SetContactActive

SpecAccount == InitAccount /\ [][NextAccount]_vars

\* C19 as stated: every stored tenant account has a primary contact, and that
\* contact is active.
C19_AsStated ==
  \A t \in DOMAIN db.TenantAccount :
    /\ db.TenantAccount[t].primary_contact # None
    /\ db.Contact[db.TenantAccount[t].primary_contact].is_active

\* C19: a save of a stored tenant account with no primary contact or with an
\* inactive one fails, as does a create with an inactive one; a create without
\* primary contact and every save with an active one is accepted; a stored
\* tenant account without primary contact has never been saved again since
\* its creation.
C19_SaveNeedsActivePrimary ==
  /\ saved.kind = "TenantAccount" =>
       /\ (~saved.created /\ ~saved.has_primary) => saved.result # "ok"
       /\ (saved.has_primary /\ ~saved.primary_active) => saved.result # "ok"
       /\ (saved.created /\ ~saved.has_primary) => saved.result = "ok"
       /\ (saved.has_primary /\ saved.primary_active) => saved.result = "ok"
  /\ \A t \in DOMAIN db.TenantAccount :
       "resaved" \in DOMAIN db.TenantAccount[t] =>
         (db.TenantAccount[t].primary_contact = None => ~db.TenantAccount[t].resaved)

\* C19 witness: a tenant account created without primary contact is stored,
\* and its next save without primary contact was rejected.
C19_Witness ==
  /\ saved.kind = "TenantAccount" /\ ~saved.created /\ ~saved.has_primary
  /\ saved.result = "primary contact is required"
  /\ \E t \in DOMAIN db.TenantAccount :
       /\ "resaved" \in DOMAIN db.TenantAccount[t]
       /\ db.TenantAccount[t].primary_contact = None
  /\ \E t \in DOMAIN db.TenantAccount :
       /\ "resaved" \in DOMAIN db.TenantAccount[t]
       /\ db.TenantAccount[t].resaved

\* ---------------------------------------------------------------- SpecMember
\* Club memberships are created and saved again for any club and member
\* account, and clubs are saved under another tenant.

\* ClubMember.clean and the unique_member_per_club constraint, for instance
\* cm = [pk, club, member_account] over database d.
ClubMember_clean(d, cm) ==
  IF d.MemberAccount[cm.member_account].tenant # d.Club[cm.club].tenant
    THEN "must be in same tenant"
  ELSE IF \E i \in DOMAIN d.ClubMember :
            /\ i # cm.pk
            /\ d.ClubMember[i].club = cm.club
            /\ d.ClubMember[i].member_account = cm.member_account
    THEN "unique_member_per_club"
  ELSE "ok"

\* ClubMember.save: full_clean, then the row is written (the membership number
\* written afterwards is not modelled).
ClubMember_save(cm) ==
  LET result == ClubMember_clean(db, cm)
      pk == IF cm.pk = None THEN NextId(db.ClubMember) ELSE cm.pk IN
  /\ saved' = [kind |-> "ClubMember", result |-> result,
               same_tenant |-> db.MemberAccount[cm.member_account].tenant = db.Club[cm.club].tenant]
  /\ db' = IF result = "ok"
             THEN [db EXCEPT !.ClubMember =
                     [i \in DOMAIN db.ClubMember \cup {pk} |->
                        IF i = pk THEN [club |-> cm.club, member_account |-> cm.member_account]
                                  ELSE db.ClubMember[i]]]
             ELSE db

\* Clubs and member accounts of every tenant are stored; no membership yet.
InitMember ==
  /\ db = [Database(DefaultShape) EXCEPT !.ClubStaff = <<>>, !.ClubMember = <<>>,
                                         !.ClubAffiliation = <<>>]
  /\ InitCtx
  /\ InitCache
  /\ InitMw
  /\ ret = NoRows

\* ClubMember.objects.create(club=c, member_account=m, ...)
CreateClubMember ==
  \E c \in DOMAIN db.Club, m \in DOMAIN db.MemberAccount :
    LET cm == [pk |-> None, club |-> c, member_account |-> m] IN
    /\ \/ Cardinality(DOMAIN db.ClubMember) < MaxRecs
       \/ ClubMember_clean(db, cm) # "ok"
    /\ ClubMember_save(cm)
    /\ UNCHANGED <<ctxVars, ret, cacheVars, mwVars, tx>>

\* A stored membership is saved again, for any club and member account.
SaveClubMember ==
  \E i \in DOMAIN db.ClubMember, c \in DOMAIN db.Club, m \in DOMAIN db.MemberAccount :
    /\ ClubMember_save([pk |-> i, club |-> c, member_account |-> m])
    /\ UNCHANGED <<ctxVars, ret, cacheVars, mwVars, tx>>

\* club.tenant = t; club.save(): Club validation does not look at the club's
\* memberships.
MoveClub ==
  \E c \in DOMAIN db.Club, t \in DOMAIN db.TenantAccount :
    /\ Club_save(Worker, [pk |-> c, tenant |-> t, name |-> db.Club[c].name])
    /\ UNCHANGED <<ctxVars, ret, cacheVars, mwVars, tx>>

NextMember == CreateClubMember \/ SaveClubMember \/ MoveClub

SpecMember == InitMember /\ [][NextMember]_vars

\* Every stored club membership links a member account and a club of the same
\* tenant.
MembersInClubTenant ==
  \A i \in DOMAIN db.ClubMember :
    db.MemberAccount[db.ClubMember[i].member_account].tenant = db.Club[db.ClubMember[i].club].tenant

\* C20: a save of a club membership whose member account's tenant differs from
\* its club's tenant fails, and every stored club membership links a member
\* account and a club of the same tenant.
C20_MemberInClubTenant ==
  /\ (saved.kind = "ClubMember" /\ ~saved.same_tenant) => saved.result # "ok"
  /\ MembersInClubTenant

\* The save rule of C20 alone.
C20_SaveRule == (saved.kind = "ClubMember" /\ ~saved.same_tenant) => saved.result # "ok"

\* A membership broke the tenant rule only by a club save, never by its own.
C20_OnlyClubSaveBreaks == [][MembersInClubTenant /\ ~MembersInClubTenant' => MoveClub]_vars

\* ----------------------------------------------------------------- SpecStaff
\* Club staff assignments are created and saved again with any club, contact,
\* role and capability flags.
ROLE_CHOICES == {"owner", "admin", "instructor", "assistant"}

\* The stored contact has a LoginUser row (contact.login_user).
ContactLoginUser(contact) ==
  IF \E u \in Users : UserTable[u].login_contact = contact
    THEN CHOOSE u \in Users : UserTable[u].login_contact = contact
    ELSE None

\* The role rules of ClubStaff.clean with the admin rule left out.
role_permissions_owner_only(s) ==
  IF s.role = "owner"
    THEN [s EXCEPT !.can_manage_members = TRUE, !.can_manage_schedule = TRUE,
                   !.can_view_finances = TRUE]
  ELSE s

\* The role rules of ClubStaff.clean: the instance with the flags the role forces.
role_permissions(s) ==
  IF s.role = "owner"
    THEN [s EXCEPT !.can_manage_members = TRUE, !.can_manage_schedule = TRUE,
                   !.can_view_finances = TRUE]
  ELSE IF s.role = "admin"
    THEN [s EXCEPT !.can_manage_members = TRUE, !.can_manage_schedule = TRUE]
  ELSE s

\* ClubStaff.clean and the unique_staff_assignment_per_club constraint for
\* instance s (no organization_user): "ok", or the error.
ClubStaff_clean(d, s) ==
  IF ContactLoginUser(s.contact) = None THEN "must have an associated login user"
  ELSE IF d.Contact[s.contact].tenant # d.Club[s.club].tenant THEN "cannot access club tenant"
  ELSE IF \E i \in DOMAIN d.ClubStaff :
            i # s.pk /\ d.ClubStaff[i].club = s.club /\ d.ClubStaff[i].contact = s.contact
    THEN "unique_staff_assignment_per_club"
  ELSE "ok"

\* ClubStaff.save: full_clean, which also sets the flags the role forces, then
\* the row is written.
ClubStaff_save(s) ==
  LET result == ClubStaff_clean(db, s)
      pk == IF s.pk = None THEN NextId(db.ClubStaff) ELSE s.pk
      cleaned == role_permissions(s)
  IN
  /\ saved' = [kind |-> "ClubStaff", result |-> result, pk |-> pk, role |-> s.role,
               unset |-> ~s.can_manage_members /\ ~s.can_manage_schedule /\ ~s.can_view_finances]
  /\ db' = IF result = "ok"
             THEN [db EXCEPT !.ClubStaff =
                     [i \in DOMAIN db.ClubStaff \cup {pk} |->
                        IF i = pk
                          THEN [club |-> cleaned.club, contact |-> cleaned.contact,
                                is_active |-> TRUE, role |-> cleaned.role,
                                can_manage_members |-> cleaned.can_manage_members,
                                can_manage_schedule |-> cleaned.can_manage_schedule,
                                can_view_finances |-> cleaned.can_view_finances]
                          ELSE db.ClubStaff[i]]]
             ELSE db

\* Instances a caller can hand to save, stored (pk) or new (None).
StaffInstances(pks) ==
  [pk : pks, club : DOMAIN db.Club, contact : DOMAIN db.Contact, role : ROLE_CHOICES,
   can_manage_members : BOOLEAN, can_manage_schedule : BOOLEAN, can_view_finances : BOOLEAN]

\* Clubs and contacts of every tenant are stored; no staff assignment yet.
InitStaff ==
  /\ db = [Database(DefaultShape) EXCEPT !.ClubStaff = <<>>, !.ClubMember = <<>>,
                                         !.ClubAffiliation = <<>>]
  /\ InitCtx
  /\ InitCache
  /\ InitMw
  /\ ret = NoRows

\* ClubStaff.objects.create(...): one assignment is stored, further creates
\* are the ones validation rejects.
CreateClubStaff ==
  \E s \in StaffInstances({None}) :
    /\ \/ DOMAIN db.ClubStaff = {}
       \/ ClubStaff_clean(db, s) # "ok"
    /\ ClubStaff_save(s)
    /\ UNCHANGED <<ctxVars, ret, cacheVars, mwVars, tx>>

\* A stored assignment is saved again with any field values.
SaveClubStaff ==
  \E s \in StaffInstances(DOMAIN db.ClubStaff) :
    /\ ClubStaff_save(s)
    /\ UNCHANGED <<ctxVars, ret, cacheVars, mwVars, tx>>

NextStaff == CreateClubStaff \/ SaveClubStaff

SpecStaff == InitStaff /\ [][NextStaff]_vars

\* C21: every stored club staff record with role owner has can_manage_members,
\* can_manage_schedule and can_view_finances true, and every one with role
\* admin has can_manage_members and can_manage_schedule true; an accepted save
\* stores the role the caller gave.
C21_RoleForcesFlags ==
  /\ \A i \in DOMAIN db.ClubStaff :
       LET s == db.ClubStaff[i] IN
       /\ s.role = "owner" =>
            s.can_manage_members /\ s.can_manage_schedule /\ s.can_view_finances
       /\ s.role = "admin" => s.can_manage_members /\ s.can_manage_schedule
  /\ (saved.kind = "ClubStaff" /\ saved.result = "ok") =>
       db.ClubStaff[saved.pk].role = saved.role

\* C21 witness: an admin was saved by a caller who supplied all three flags
\* false.
C21_Witness ==
  /\ saved.kind = "ClubStaff" /\ saved.result = "ok" /\ saved.role = "admin" /\ saved.unset
  /\ db.ClubStaff[saved.pk].can_manage_members
  /\ ~db.ClubStaff[saved.pk].can_view_finances

\* ------------------------------------------------------------ resolver claims
\* The session strategy was reached on the last call, with an entry in the
\* session.
SessionStrategyReached ==
  req.outcome = "resolved" /\ req.sub = None /\ req.path = None /\ req.had # None

\* C22: when the session strategy is reached and selected_tenant_id names a
\* tenant that is inactive or no longer stored, the entry is removed from the
\* session, no tenant is returned and the middleware hands the request on with
\* no tenant attached and an empty context tenant; when it names an active
\* tenant, that tenant is returned and the session keeps the entry.
C22_StaleSessionPurged ==
  SessionStrategyReached =>
    IF req.had \in DOMAIN db.TenantAccount /\ db.TenantAccount[req.had].is_active
      THEN req.resolved = req.had /\ session = req.had
      ELSE /\ session = None
           /\ req.resolved = None /\ req.tenant = None
           /\ get_current_tenant(Worker) = None
           /\ req.pc = "done"

\* C22 witness: the session named a tenant that was deleted since, the previous
\* request had left a tenant in the context, and the entry was purged.
C22_Witness ==
  /\ SessionStrategyReached
  /\ req.had \notin DOMAIN db.TenantAccount
  /\ req.stale # None
  /\ session = None /\ get_current_tenant(Worker) = None

\* C23: for a host whose first label is www, api, admin, static or media, or
\* that starts with localhost, 127.0.0.1 or 0.0.0.0, or that has fewer than
\* three labels, the subdomain strategy yields no tenant and looks up no slug,
\* also when an active tenant has the first label as its slug.
C23_SkippedHostsNoLookup ==
  (req.outcome = "resolved" /\ req.skipped) => (req.sub = None /\ req.lookup = "")

\* C23 witness: a skipped host whose first label is the slug of an active
\* tenant.
C23_Witness ==
  /\ req.outcome = "resolved" /\ req.skipped
  /\ req.named # None
  /\ req.sub = None /\ req.lookup = ""

\* C24: after AdminTenantContextMiddleware processed an admin-path request of
\* an authenticated actor, the session holds no selected_tenant_id or the id of
\* an active tenant, and then the context tenant and request.tenant are that
\* tenant; a selection naming an inactive or unknown tenant, or an empty
\* selection, leaves no entry in the session.
C24_AdminSelection ==
  (req.pc = get_response("AdminTenantContextMiddleware") /\ req.admin /\ req.user # None) =>
    /\ \/ session = None
       \/ /\ session \in DOMAIN db.TenantAccount
          /\ db.TenantAccount[session].is_active
          /\ get_current_tenant(Worker) = session
          /\ req.tenant = session
    /\ (req.sel /\ (\/ req.selId = None
                    \/ req.selId \notin DOMAIN db.TenantAccount
                    \/ ~db.TenantAccount[req.selId].is_active)) => session = None

\* C24 witness: an admin who is no superuser selected an active tenant, which
\* now is in the session, in the context and on the request.
C24_Witness ==
  /\ req.pc = get_response("AdminTenantContextMiddleware") /\ req.admin /\ req.user # None
  /\ ~UserTable[req.user].is_superuser
  /\ req.sel /\ req.selId # None /\ session = req.selId
  /\ get_current_tenant(Worker) = session /\ req.tenant = session

\* ----------------------------------------------------------------- SpecLimit
\* create_member_account is called for any tenant, each time with a new contact
\* of that tenant, under any context tenant.
MaxMembers == 3

\* tenant.member_accounts: the reverse accessor is built on the default manager
\* of MemberAccount (objects), so it is the default queryset restricted to the
\* tenant's rows.
member_accounts(thr, tenant) ==
  {i \in objects(thr, "MemberAccount") : db.MemberAccount[i].tenant = tenant}

\* TenantAccount.get_member_count / can_add_member
get_member_count(thr, tenant) ==
  Cardinality({i \in member_accounts(thr, tenant) : db.MemberAccount[i].is_active})
can_add_member(thr, tenant) ==
  get_member_count(thr, tenant) < db.TenantAccount[tenant].max_member_accounts

\* The active member accounts of the tenant in the durable store.
ActiveMembers(d, tenant) ==
  {i \in DOMAIN d.MemberAccount : d.MemberAccount[i].tenant = tenant /\ d.MemberAccount[i].is_active}

\* accounts.utils.create_member_account(tenant, contact, ...) called by thr.
create_member_account(thr, tenant) ==
  LET allowed == can_add_member(thr, tenant) IN
  /\ saved' = [kind |-> "MemberAccount", tenant |-> tenant,
               result |-> IF allowed THEN "created" ELSE "limit",
               at_limit |-> Cardinality(ActiveMembers(db, tenant))
                              >= db.TenantAccount[tenant].max_member_accounts]
  /\ db' = IF allowed
             THEN [db EXCEPT !.MemberAccount =
                     Append(db.MemberAccount, [tenant |-> tenant, is_active |-> TRUE])]
             ELSE db

\* No member account yet; every tenant has the same limit, any of 0..MaxQuota.
InitLimit ==
  /\ \E n \in 0..MaxQuota :
       db = [Database(DefaultShape) EXCEPT
               !.TenantAccount = [t \in Tenants |->
                                    [tenant_slug |-> SlugOf(t), is_active |-> TRUE,
                                     max_clubs |-> DefaultMaxClubs, max_member_accounts |-> n]],
               !.MemberAccount = <<>>, !.ClubMember = <<>>]
  /\ InitCtx
  /\ InitCache
  /\ InitMw
  /\ ret = NoRows

CreateMemberAccount ==
  \E t \in DOMAIN db.TenantAccount :
    /\ \/ Cardinality(DOMAIN db.MemberAccount) < MaxMembers
       \/ ~can_add_member(Worker, t)
    /\ create_member_account(Worker, t)
    /\ UNCHANGED <<ctxVars, ret, cacheVars, mwVars, tx>>

NextLimit == CreateMemberAccount \/ CallerTenant

SpecLimit == InitLimit /\ [][NextLimit]_vars

\* C25: the number of active member accounts of a tenant never exceeds its
\* max_member_accounts, and a call for a tenant at its limit returns the limit
\* error and creates no account, whatever the context tenant is.
C25_MemberLimit ==
  /\ \A t \in DOMAIN db.TenantAccount :
       "max_member_accounts" \in DOMAIN db.TenantAccount[t] =>
         Cardinality(ActiveMembers(db, t)) <= db.TenantAccount[t].max_member_accounts
  /\ (saved.kind = "MemberAccount" /\ saved.at_limit) => saved.result = "limit"

\* The limit holds for calls made under no context tenant or under the tenant
\* the account is created for.
C25_LimitUnderOwnContext ==
  [][(\E t \in DOMAIN db.TenantAccount :
        /\ get_current_tenant(Worker) \in {None, t}
        /\ create_member_account(Worker, t))
     => (saved'.at_limit => saved'.result = "limit")]_vars

\* -------------------------------------------------------------- SpecClubRace
\* Several requests create clubs at the same time: each thread runs Club.save
\* as two steps, the validation (full_clean) and the insert, and the steps of
\* different threads interleave. The clubs get names no other club has.

\* The names no stored club and no club being saved has.
FreeNames ==
  {n \in ClubNames :
     /\ \A i \in DOMAIN db.Club : db.Club[i].name # n
     /\ \A thr \in Threads : tx[thr].pc = "idle" \/ tx[thr].name # n}

\* The threads whose club is validated but not inserted yet.
ClubsInFlight == {thr \in Threads : tx[thr].pc = "cleaned"}

\* No club yet; every tenant has the same quota, any of 1..MaxQuota.
InitClubRace ==
  /\ \E n \in 1..MaxQuota :
       db = [Database(DefaultShape) EXCEPT
               !.TenantAccount = [t \in Tenants |->
                                    [tenant_slug |-> SlugOf(t), is_active |-> TRUE, max_clubs |-> n]],
               !.Club = <<>>, !.ClubStaff = <<>>, !.ClubMember = <<>>, !.ClubAffiliation = <<>>]
  /\ InitCtx
  /\ InitCache
  /\ InitMw
  /\ ret = NoRows

\* Club.save, first half: self.full_clean() on the rows stored at this moment.
\* A ValidationError ends the save.
CleanClub ==
  \E thr \in Threads, t \in DOMAIN db.TenantAccount, n \in FreeNames :
    LET club == [pk |-> None, tenant |-> t, name |-> n]
        result == Club_clean(thr, club) IN
    /\ tx[thr].pc = "idle"
    /\ \/ Cardinality(DOMAIN db.Club) + Cardinality(ClubsInFlight) < MaxClubs
       \/ result # "ok"
    /\ tx' = [tx EXCEPT ![thr] = IF result = "ok"
                                   THEN [pc |-> "cleaned", tenant |-> t, name |-> n]
                                   ELSE NoTx]
    /\ saved' = [kind |-> "ClubRace", thr |-> thr, result |-> result]
    /\ UNCHANGED <<db, ctxVars, ret, cacheVars, mwVars>>

\* Club.save, second half: super().save() inserts the row.
InsertClub ==
  \E thr \in Threads :
    /\ tx[thr].pc = "cleaned"
    /\ db' = [db EXCEPT !.Club = Append(db.Club, [tenant |-> tx[thr].tenant, name |-> tx[thr].name])]
    /\ tx' = [tx EXCEPT ![thr] = NoTx]
    /\ saved' = [kind |-> "ClubRace", thr |-> thr, result |-> "inserted"]
    /\ UNCHANGED <<ctxVars, ret, cacheVars, mwVars>>

NextClubRace == CleanClub \/ InsertClub

SpecClubRace == InitClubRace /\ [][NextClubRace]_vars

\* C26: under every interleaving of the validations and the inserts of
\* concurrent club creations, the club count of a tenant never exceeds its
\* max_clubs.
C26_QuotaUnderConcurrency ==
  \A t \in DOMAIN db.TenantAccount :
    Cardinality(ClubsOf(db, t)) <= db.TenantAccount[t].max_clubs

\* C27: every tenant TenantContextMiddleware places in the context from a
\* subdomain or path slug is stored and active in the durable store while the
\* request is handled.
C27_ContextTenantActive ==
  (req.outcome = "resolved" /\ (req.sub # None \/ req.path # None)) =>
    /\ get_current_tenant(Worker) = req.resolved
    /\ req.resolved \in DOMAIN db.TenantAccount
    /\ db.TenantAccount[req.resolved].is_active

\* The tenant resolved from a slug is the one placed in the context.
C27_ContextTenantFromSlug ==
  (req.outcome = "resolved" /\ (req.sub # None \/ req.path # None)) =>
    get_current_tenant(Worker) = req.resolved

\* ---------------------------------------------------------------- SpecWorker
\* One worker thread handles requests one after another; TenantContextMiddleware
\* starts each request, and the handler of a request may call
\* set_current_organization and set_current_user. req.touched: the handler of
\* the request in progress has set one of the two slots.
HandlerSetsSlot ==
  \E slot \in {"organization", "user"} : \E v \in SlotValues(slot) :
    /\ req.pc = "done" /\ req.outcome = "resolved"
    /\ SetSlot(Worker, slot, v)
    /\ req' = [req EXCEPT !.touched = TRUE]
    /\ UNCHANGED <<db, lastGet, switched, ret, cacheVars, session, saved, tx>>

NextWorker == Resolve \/ HandlerSetsSlot \/ Respond

SpecWorker == InitRequests /\ [][NextWorker]_vars

\* C28: when the handler of a request starts, the organization slot and the
\* acting-user slot are empty; they hold a value only once the handler of this
\* request has set one.
C28_SlotsEmptyAtRequestStart ==
  (req.pc = "done" /\ req.outcome = "resolved" /\ ~req.touched) =>
    /\ get_current_organization(Worker) = None
    /\ get_current_user(Worker) = None

\* The tenant slot is the one slot cleared at the start of a request.
C28_TenantSlotCleared ==
  (req.pc = "done" /\ req.outcome = "resolved") => get_current_tenant(Worker) = req.resolved

\* C29: whenever the downstream handler runs after the three interceptors,
\* request.tenant and the context tenant are equal, the same tenant or both
\* empty, and they were equal when the entitlement check was made.
C29_RequestTenantIsContextTenant ==
  req.pc \in {"TenantAccessControlMiddleware", "view"} => req.tenant = get_current_tenant(Worker)

\* C29 witness: the handler runs for an authenticated actor with a tenant on
\* the request and in the context.
C29_Witness ==
  /\ req.pc = "view" /\ req.user # None
  /\ req.tenant # None /\ req.tenant = get_current_tenant(Worker)

\* ------------------------------------------------------------ SpecAffiliation
\* Affiliations between any two clubs are created under any context tenant.

\* ClubAffiliation.clean and the unique_club_affiliation constraint for
\* instance a = [pk, club_primary, club_secondary], validated by thread thr.
ClubAffiliation_clean(thr, a) ==
  IF a.club_primary = a.club_secondary THEN "cannot affiliate with itself"
  ELSE IF \E i \in objects(thr, "ClubAffiliation") :
            /\ db.ClubAffiliation[i].club_primary = a.club_secondary
            /\ db.ClubAffiliation[i].club_secondary = a.club_primary
            /\ i # a.pk
    THEN "reverse affiliation already exists"
  ELSE IF db.Club[a.club_primary].tenant # db.Club[a.club_secondary].tenant
    THEN "must belong to the same tenant"
  ELSE IF \E i \in all_objects("ClubAffiliation") :
            /\ db.ClubAffiliation[i].club_primary = a.club_primary
            /\ db.ClubAffiliation[i].club_secondary = a.club_secondary
            /\ i # a.pk
    THEN "unique_club_affiliation"
  ELSE "ok"

\* The reverse of affiliation a is stored.
ReverseStored(d, a) ==
  \E i \in DOMAIN d.ClubAffiliation :
    /\ d.ClubAffiliation[i].club_primary = a.club_secondary
    /\ d.ClubAffiliation[i].club_secondary = a.club_primary
    /\ i # a.pk

\* ClubAffiliation.save: full_clean, then the row is written.
ClubAffiliation_save(thr, a) ==
  LET result == ClubAffiliation_clean(thr, a)
      pk == IF a.pk = None THEN NextId(db.ClubAffiliation) ELSE a.pk IN
  /\ saved' = [kind |-> "ClubAffiliation", result |-> result, reverse |-> ReverseStored(db, a),
               context |-> get_current_tenant(thr), tenant |-> db.Club[a.club_primary].tenant]
  /\ db' = IF result = "ok"
             THEN [db EXCEPT !.ClubAffiliation =
                     [i \in DOMAIN db.ClubAffiliation \cup {pk} |->
                        IF i = pk THEN [club_primary |-> a.club_primary,
                                        club_secondary |-> a.club_secondary]
                                  ELSE db.ClubAffiliation[i]]]
             ELSE db

\* Clubs are stored, each in any tenant; no affiliation yet.
InitAffiliation ==
  /\ \E f \in [Recs -> Tenants] :
       db = [Database(DefaultShape) EXCEPT
               !.Club = [i \in Recs |-> [tenant |-> f[i], name |-> i]],
               !.ClubStaff = <<>>, !.ClubMember = <<>>, !.ClubAffiliation = <<>>]
  /\ InitCtx
  /\ InitCache
  /\ InitMw
  /\ ret = NoRows

CreateAffiliation ==
  \E p \in DOMAIN db.Club, s \in DOMAIN db.Club :
    LET a == [pk |-> None, club_primary |-> p, club_secondary |-> s] IN
    /\ \/ Cardinality(DOMAIN db.ClubAffiliation) < MaxClubs
       \/ ClubAffiliation_clean(Worker, a) # "ok"
    /\ ClubAffiliation_save(Worker, a)
    /\ UNCHANGED <<ctxVars, ret, cacheVars, mwVars, tx>>

NextAffiliation == CreateAffiliation \/ CallerTenant

SpecAffiliation == InitAffiliation /\ [][NextAffiliation]_vars

\* C30: no two clubs A and B have both affiliation (A, B) and affiliation
\* (B, A) stored, and a save of an affiliation whose reverse is stored fails,
\* whatever the context tenant is.
C30_NoReverseAffiliation ==
  /\ \A i, j \in DOMAIN db.ClubAffiliation :
       ~(/\ db.ClubAffiliation[i].club_primary = db.ClubAffiliation[j].club_secondary
         /\ db.ClubAffiliation[i].club_secondary = db.ClubAffiliation[j].club_primary)
  /\ (saved.kind = "ClubAffiliation" /\ saved.reverse) => saved.result # "ok"

\* A save of an affiliation whose reverse is stored fails when the context
\* tenant is empty or the tenant of the clubs.
C30_ReverseRejectedInOwnContext ==
  (saved.kind = "ClubAffiliation" /\ saved.reverse /\ saved.context \in {None, saved.tenant})
    => saved.result # "ok"

====
